---- MODULE Spec2Model ----
(***************************************************************************)
(* Model of the chart-generation subsystem of marketing-ai-agent:          *)
(*   ChartUtils.validate_sql_query / validate_plotly_code  (utils.py)      *)
(*   generate_visualization                       (marketing_server.py)    *)
(*   VisualizationEngine.generate_chart and its helpers,                   *)
(*   list_recent_charts, cleanup_old_charts                 (core.py)      *)
(*                                                                         *)
(* Text is a sequence of one-character strings, so that lower(), strip(),  *)
(* startswith(), count() and the `in` substring test are computed the way  *)
(* Python computes them.                                                   *)
(***************************************************************************)
EXTENDS Integers, Sequences, FiniteSets, TLC

VARIABLES
    pc,             \* position of the one synchronous caller
    caller,         \* "tool" (generate_visualization), "direct" (generate_chart), "cleanup"
    name,           \* the chart name of the request
    sql_query,      \* the query text
    plotly_code,    \* the script text
    sql_valid,      \* (sql_valid, sql_error) of generate_visualization
    plotly_valid,   \* (plotly_valid, plotly_error) of generate_visualization
    export_formats, \* generate_chart's export_formats
    auto_open,      \* generate_chart's auto_open
    env,            \* what the collaborators do in this call (data source, script, renderers)
    base_filename,  \* generate_chart's base_filename
    fig,            \* the figure the Executor returned, or NoFig
    result,         \* generate_chart's result dictionary
    ret,            \* text returned by generate_visualization
    queryCalls,     \* queries the data source has observed in this call
    scriptRuns,     \* times the script's statements started running in this call
    console,        \* lines printed on the caller's console in this call
    now,            \* the clock, in ticks
    dir,            \* the output directory: file path -> its modification time and content
    calls,          \* generation requests made so far
    last            \* what the last Repository operation did

vars == <<pc, caller, name, sql_query, plotly_code, sql_valid, plotly_valid,
          export_formats, auto_open, env, base_filename, fig, result, ret,
          queryCalls, scriptRuns, console, now, dir, calls, last>>

-----------------------------------------------------------------------------
(* Bounds of the model. *)

\* fragments concatenated into a query of the validator specification
MaxSqlFrags == 4
\* fragments concatenated into a script of the validator specification
MaxCodeFrags == 3
\* last tick of the clock
MaxTime == 1
\* generation requests in one behaviour
MaxCalls == 2

\* the longest short data frame given to create_ascii_chart
MaxRows == 3

-----------------------------------------------------------------------------
(* Python string operations. *)

Upper == {"A", "B", "C", "D", "E", "F", "G", "H", "I", "J", "K", "L", "M",
          "N", "O", "P", "Q", "R", "S", "T", "U", "V", "W", "X", "Y", "Z"}

LowerOf ==
    "A" :> "a" @@ "B" :> "b" @@ "C" :> "c" @@ "D" :> "d" @@ "E" :> "e" @@
    "F" :> "f" @@ "G" :> "g" @@ "H" :> "h" @@ "I" :> "i" @@ "J" :> "j" @@
    "K" :> "k" @@ "L" :> "l" @@ "M" :> "m" @@ "N" :> "n" @@ "O" :> "o" @@
    "P" :> "p" @@ "Q" :> "q" @@ "R" :> "r" @@ "S" :> "s" @@ "T" :> "t" @@
    "U" :> "u" @@ "V" :> "v" @@ "W" :> "w" @@ "X" :> "x" @@ "Y" :> "y" @@
    "Z" :> "z"

\* str.lower()
Lower(s) == [i \in 1..Len(s) |-> IF s[i] \in Upper THEN LowerOf[s[i]] ELSE s[i]]

\* the characters str.strip() removes
Whitespace == {" ", "\n", "\t", "\r", "\f"}

\* str.strip()
Strip(s) ==
    LET keep == {i \in 1..Len(s) : s[i] \notin Whitespace}
        lo == CHOOSE i \in keep : \A j \in keep : i <= j
        hi == CHOOSE i \in keep : \A j \in keep : j <= i
    IN  IF keep = {} THEN <<>> ELSE SubSeq(s, lo, hi)

\* p in s
Contains(s, p) ==
    \E i \in 1..(Len(s) - Len(p) + 1) : SubSeq(s, i, i + Len(p) - 1) = p

\* s.startswith(p)
StartsWith(s, p) == Len(s) >= Len(p) /\ SubSeq(s, 1, Len(p)) = p

\* s.count(c) for a one-character c
Count(s, c) == Cardinality({i \in 1..Len(s) : s[i] = c})

\* concatenation of a sequence of texts
RECURSIVE Concat(_)
Concat(parts) == IF parts = <<>> THEN <<>> ELSE Head(parts) \o Concat(Tail(parts))

-----------------------------------------------------------------------------
(* ChartUtils.validate_sql_query *)

dangerous_keywords == <<
    <<"d", "r", "o", "p">>,
    <<"d", "e", "l", "e", "t", "e">>,
    <<"t", "r", "u", "n", "c", "a", "t", "e">>,
    <<"a", "l", "t", "e", "r">>,
    <<"c", "r", "e", "a", "t", "e">>,
    <<"i", "n", "s", "e", "r", "t">>,
    <<"u", "p", "d", "a", "t", "e">>,
    <<"g", "r", "a", "n", "t">>,
    <<"r", "e", "v", "o", "k", "e">>,
    <<"e", "x", "e", "c">>,
    <<"e", "x", "e", "c", "u", "t", "e">> >>

select == <<"s", "e", "l", "e", "c", "t">>

\* the test of line 37: f' {keyword} ' in f' {query_lower} '
KeywordHit(query_lower, keyword) ==
    Contains(<<" ">> \o query_lower \o <<" ">>, <<" ">> \o keyword \o <<" ">>)

\* the test of line 45
ParenCountsDiffer(query) == Count(query, "(") # Count(query, ")")

Accept == [ok |-> TRUE, reason |-> <<>>]
Reject(text) == [ok |-> FALSE, reason |-> text]

validate_sql_query(query) ==
    LET query_lower == Strip(Lower(query))
        hits == {k \in 1..Len(dangerous_keywords) :
                    KeywordHit(query_lower, dangerous_keywords[k])}
        first == CHOOSE k \in hits : \A j \in hits : k <= j
    IN  IF hits # {}
        THEN Reject(<<"Query contains potentially dangerous keyword: ">>
                    \o dangerous_keywords[first])
        ELSE IF ~StartsWith(query_lower, select)
        THEN Reject(<<"Query must start with SELECT">>)
        ELSE IF ParenCountsDiffer(query)
        THEN Reject(<<"Mismatched parentheses in query">>)
        ELSE Accept

-----------------------------------------------------------------------------
(* ChartUtils.validate_plotly_code *)

dangerous_patterns == <<
    <<"i", "m", "p", "o", "r", "t", " ", "o", "s">>,
    <<"i", "m", "p", "o", "r", "t", " ", "s", "y", "s">>,
    <<"i", "m", "p", "o", "r", "t", " ", "s", "u", "b", "p", "r", "o", "c", "e", "s", "s">>,
    <<"e", "x", "e", "c", "(">>,
    <<"e", "v", "a", "l", "(">>,
    <<"o", "p", "e", "n", "(">>,
    <<"_", "_", "i", "m", "p", "o", "r", "t", "_", "_">>,
    <<"g", "l", "o", "b", "a", "l", "s", "(", ")">>,
    <<"l", "o", "c", "a", "l", "s", "(", ")">>,
    <<"f", "i", "l", "e", "(">>,
    <<"i", "n", "p", "u", "t", "(">>,
    <<"r", "a", "w", "_", "i", "n", "p", "u", "t", "(">> >>

fig_marker == <<"f", "i", "g">>

plotly_markers == << <<"p", "x", ".">>, <<"g", "o", ".">>,
                     <<"p", "l", "o", "t", "l", "y">> >>

\* the figure-variable test made on the lower-cased text
FigHaystackLower(code) == Lower(code)

\* the text the figure-variable test of line 75 searches
FigHaystack(code) == code

\* the test of line 79
UsesPlotly(code) ==
    \E k \in 1..Len(plotly_markers) : Contains(code, plotly_markers[k])

validate_plotly_code(code) ==
    LET code_lower == Lower(code)
        hits == {k \in 1..Len(dangerous_patterns) :
                    Contains(code_lower, dangerous_patterns[k])}
        first == CHOOSE k \in hits : \A j \in hits : k <= j
    IN  IF hits # {}
        THEN Reject(<<"Code contains potentially dangerous pattern: ">>
                    \o dangerous_patterns[first])
        ELSE IF ~Contains(FigHaystack(code), fig_marker)
        THEN Reject(<<"Code must create a variable named 'fig'">>)
        ELSE IF ~UsesPlotly(code)
        THEN Reject(<<"Code should use plotly (px. or go.)">>)
        ELSE Accept

-----------------------------------------------------------------------------
(* Inputs of the validator specifications: every concatenation of a few    *)
(* fragments, so that keywords meet every delimiter and both letter cases. *)

SqlFragments == {
    <<"s", "e", "l", "e", "c", "t">>,
    <<"S", "E", "L", "E", "C", "T">>,
    <<" ">>, <<"\n">>, <<"\t">>, <<";">>, <<"(">>, <<")">>,
    <<"x">>,
    <<"d", "r", "o", "p">>,
    <<"D", "e", "l", "e", "t", "e">>,
    <<"u", "p", "d", "a", "t", "e", "d">> }

CodeFragments == {
    <<"f", "i", "g">>,
    <<"F", "I", "G">>,
    <<"=">>,
    <<"p", "x", ".">>,
    <<"P", "X", ".">>,
    <<"g", "o", ".">>,
    <<"p", "l", "o", "t", "l", "y">>,
    <<"o", "p", "e", "n", "(">>,
    <<"O", "P", "E", "N", "(">>,
    <<"e", "v">>,
    <<"a", "l", "(">> }

TextsOf(fragments, n) ==
    {Concat(p) : p \in UNION {[1..k -> fragments] : k \in 0..n}}

SqlInputs == TextsOf(SqlFragments, MaxSqlFrags)
CodeInputs == TextsOf(CodeFragments, MaxCodeFrags)

-----------------------------------------------------------------------------
(* Values shared by the specifications. *)

Pending == [ok |-> FALSE, reason |-> <<>>]
NoFig == [kind |-> "none"]
\* what the collaborators of one call have done so far
Unrun == [query |-> "unrun", script |-> "unrun", stdout |-> "", stderr |-> "",
          message |-> "", json |-> "unrun", html |-> "unrun", png |-> "unrun",
          svg |-> "unrun", browser |-> "unrun", chart_data |-> "unrun",
          preview |-> "unrun"]
NoChartData == [present |-> FALSE]
NoResult == [success |-> FALSE, files |-> << >>, errors |-> <<>>, chart_data |-> NoChartData]
NoLast == [op |-> "none"]

InitRest ==
    /\ pc = "idle"
    /\ caller = "none"
    /\ name = <<>>
    /\ sql_valid = Pending
    /\ plotly_valid = Pending
    /\ export_formats = <<>>
    /\ auto_open = FALSE
    /\ env = Unrun
    /\ base_filename = <<>>
    /\ fig = NoFig
    /\ result = NoResult
    /\ ret = <<>>
    /\ queryCalls = 0
    /\ scriptRuns = 0
    /\ console = <<>>
    /\ last = NoLast

-----------------------------------------------------------------------------
(* SpecSql: validate_sql_query applied to every query of SqlInputs.        *)

InitSql == sql_query \in SqlInputs /\ plotly_code = <<>> /\ InitRest /\ now = 0 /\ dir = << >> /\ calls = 0

ValidateSql ==
    /\ pc = "idle"
    /\ sql_valid' = validate_sql_query(sql_query)
    /\ pc' = "sql_checked"
    /\ UNCHANGED <<caller, name, sql_query, plotly_code, plotly_valid, export_formats,
                   auto_open, env, base_filename, fig, result, ret, queryCalls,
                   scriptRuns, console, now, calls, dir, last>>

NextSql == ValidateSql

SpecSql == InitSql /\ [][NextSql]_vars

(* SpecCode: validate_plotly_code applied to every script of CodeInputs.   *)

InitCode == plotly_code \in CodeInputs /\ sql_query = <<>> /\ InitRest /\ now = 0 /\ dir = << >> /\ calls = 0

ValidateCode ==
    /\ pc = "idle"
    /\ plotly_valid' = validate_plotly_code(plotly_code)
    /\ pc' = "code_checked"
    /\ UNCHANGED <<caller, name, sql_query, plotly_code, sql_valid, export_formats,
                   auto_open, env, base_filename, fig, result, ret, queryCalls,
                   scriptRuns, console, now, calls, dir, last>>

NextCode == ValidateCode

SpecCode == InitCode /\ [][NextCode]_vars

-----------------------------------------------------------------------------
(* Claims about the validators. *)

TokenDelims == {" ", "\n", "\t", ";", "(", ")"}

\* keyword occurs in the case-folded text with a delimiter or a text end on each side
StandaloneToken(text, keyword) ==
    LET s == Lower(text)
        n == Len(keyword)
    IN  \E i \in 1..(Len(s) - n + 1) :
            /\ SubSeq(s, i, i + n - 1) = keyword
            /\ (i = 1 \/ s[i - 1] \in TokenDelims)
            /\ (i + n > Len(s) \/ s[i + n] \in TokenDelims)

HasDenylistedToken(text) ==
    \E k \in 1..Len(dangerous_keywords) : StandaloneToken(text, dangerous_keywords[k])

Rejected(v) == ~v.ok /\ v.reason # <<>>

\* C1: validate_sql_query rejects, with a non-empty reason, every query whose
\* trimmed, case-folded text does not begin with 'select' and every query in
\* which a denylisted keyword stands as a token between any of the delimiters
\* space, newline, tab, ';', '(' and ')'.
C1_RejectsNonSelectAndDenylistedTokens ==
    pc = "sql_checked" =>
        ((~StartsWith(Strip(Lower(sql_query)), select) \/ HasDenylistedToken(sql_query))
            => Rejected(sql_valid))

\* some ')' has no earlier unmatched '(' or some '(' is never closed
Unbalanced(text) ==
    \/ \E i \in 1..Len(text) :
          Count(SubSeq(text, 1, i), ")") > Count(SubSeq(text, 1, i), "(")
    \/ Count(text, "(") > Count(text, ")")

\* C4: validate_sql_query rejects every query whose parentheses are unbalanced.
C4_RejectsUnbalancedParentheses ==
    pc = "sql_checked" => (Unbalanced(sql_query) => Rejected(sql_valid))

NoDangerousPattern(code) ==
    \A k \in 1..Len(dangerous_patterns) : ~Contains(Lower(code), dangerous_patterns[k])

\* C3: validate_plotly_code accepts a script exactly when no denylisted pattern
\* occurs in its lower-cased text, 'fig' occurs in the script and one of 'px.',
\* 'go.', 'plotly' occurs in the script; every other script, in particular every
\* script without 'fig', is rejected with a non-empty reason.
C3_AcceptsExactlyCleanFigPlotlyScripts ==
    pc = "code_checked" =>
        /\ plotly_valid.ok <=>
              /\ NoDangerousPattern(plotly_code)
              /\ Contains(plotly_code, fig_marker)
              /\ \E k \in 1..Len(plotly_markers) : Contains(plotly_code, plotly_markers[k])
        /\ ~plotly_valid.ok => plotly_valid.reason # <<>>
        /\ ~Contains(plotly_code, fig_marker) => Rejected(plotly_valid)

\* a script with a plotting marker and no denylisted pattern that spells the
\* figure variable in capitals only has been rejected
C3_Witness ==
    /\ pc = "code_checked"
    /\ NoDangerousPattern(plotly_code)
    /\ Contains(plotly_code, <<"p", "x", ".">>)
    /\ ~Contains(plotly_code, fig_marker)
    /\ Contains(Lower(plotly_code), fig_marker)
    /\ Rejected(plotly_valid)

-----------------------------------------------------------------------------
(* Spec: one synchronous caller of generate_visualization, generate_chart  *)
(* and cleanup_old_charts over the shared output directory.                *)

\* requests of the main specification
SampleQueries == {
    <<"S", "E", "L", "E", "C", "T", " ", "x">>,
    <<"D", "R", "O", "P", " ", "x">>,
    <<"S", "E", "L", "E", "C", "T", " ", "x", ";", "D", "R", "O", "P", " ", "t">> }

SampleCodes == {
    <<"f", "i", "g", "=", "p", "x", ".", "x">>,
    <<"f", "=", "o", "p", "e", "n", "(", "f", "i", "g", ")", "p", "x", ".">>,
    <<"x", "=", "p", "x", ".", "y">> }

\* an accepted query and script, for callers that do not validate
ValidQuery == <<"S", "E", "L", "E", "C", "T", " ", "x">>
ValidCode == <<"f", "i", "g", "=", "p", "x", ".", "x">>

SampleNames == { <<"a", " ", "b">> }

\* export_formats=None is replaced by this list, lines 78-79
DefaultFormats == <<"html", "json">>

\* export_formats a caller of generate_chart passes
SampleFormats == { DefaultFormats, <<>>, <<"png">>, <<"html", "json", "png", "svg">> }

\* export_formats and auto_open generate_visualization passes, lines 386-387
ToolFormats == <<"html", "json", "png">>
ToolAutoOpen == TRUE

\* figures a script can bind to fig: with a title or with layout.title.text left
\* None; the first trace with x data, with x left None, or of a type that has no
\* x property
Figures == {
    [kind |-> "fig", title |-> "T", x |-> "list"],
    [kind |-> "fig", title |-> "None", x |-> "list"],
    [kind |-> "fig", title |-> "T", x |-> "absent"],
    [kind |-> "fig", title |-> "T", x |-> "None"] }

\* fig.write_html(filepath, ...), line 202: the page of the figure
ToHtml(f) == [kind |-> "html", title |-> f.title]

\* pio.to_json(fig), line 194: a document with a layout and one trace;
\* properties left None are not serialised
ToJson(f) ==
    [kind |-> "json",
     top |-> "object",
     layout |-> "object",
     title |-> IF f.title = "None" THEN [form |-> "absent", text |-> ""]
               ELSE [form |-> "object", text |-> f.title],
     data |-> "traces",
     trace_type |-> "bar",
     x |-> IF f.x = "list" THEN "list" ELSE "absent",
     y |-> "list"]

Range(f) == {f[i] : i \in DOMAIN f}

Digits == {"0", "1", "2", "3", "4", "5", "6", "7", "8", "9"}

\* c.isalnum() or c in "_-", line 51
NameChar(c) == c \in Upper \/ c \in Range(LowerOf) \/ c \in Digits \/ c \in {"_", "-"}

\* _generate_filename: the cleaned name and the timestamp of the current second
generate_filename(n) == <<SelectSeq(n, NameChar), now>>

\* os.path.join(self.output_dir, f"{base_filename}.{ext}")
PathOf(base, ext) == <<base, ext>>

\* the write reaches no file of the directory
WrittenNowhere(d, path, content) == d

\* an existing file is left as it is
WrittenKeepsExisting(d, path, content) == d @@ (path :> [mtime |-> now, content |-> content])

\* a write of `content` to `path` at the current time
Written(d, path, content) == (path :> [mtime |-> now, content |-> content]) @@ d

\* the path is not entered in the files mapping
PutNothing(f, k, v) == f

\* result['files'][k] = v
Put(f, k, v) == (k :> v) @@ f

\* result['errors'].append(entry)
WithError(r, entry) == [r EXCEPT !.errors = Append(@, entry)]

\* where control goes when generate_chart returns
AfterChart == IF caller = "tool" THEN "gv_summary" ELSE "done"

Init ==
    /\ sql_query = <<>>
    /\ plotly_code = <<>>
    /\ InitRest
    /\ now = 0
    /\ dir = << >>
    /\ calls = 0

\* the clock advances between calls
Tick ==
    /\ pc = "idle"
    /\ now < MaxTime
    /\ now' = now + 1
    /\ calls' = calls
    /\ UNCHANGED <<pc, caller, name, sql_query, plotly_code, sql_valid, plotly_valid,
                   export_formats, auto_open, env, base_filename, fig, result, ret,
                   queryCalls, scriptRuns, console, dir, last>>

\* the tool is called: generate_visualization(name, sql_query, plotly_code)
CallTool ==
    /\ pc = "idle"
    /\ \E n \in SampleNames, q \in SampleQueries, c \in SampleCodes :
          /\ name' = n
          /\ sql_query' = q
          /\ plotly_code' = c
    /\ caller' = "tool"
    /\ calls < MaxCalls
    /\ calls' = calls + 1
    /\ pc' = "gv_validate_sql"
    /\ last' = [op |-> "call", before |-> dir]
    /\ UNCHANGED <<sql_valid, plotly_valid, export_formats, auto_open, env,
                   base_filename, fig, result, ret, queryCalls, scriptRuns,
                   console, now, dir>>

\* `if not sql_valid: return`, marketing_server.py line 369
SqlCheckPasses(v) == v.ok

\* the rejection of line 373 is ignored
CodeCheckIgnored(v) == TRUE

\* `if not plotly_valid: return`, marketing_server.py line 373
CodeCheckPasses(v) == v.ok

\* marketing_server.py lines 368-370
GV_ValidateSql ==
    /\ pc = "gv_validate_sql"
    /\ sql_valid' = validate_sql_query(sql_query)
    /\ IF SqlCheckPasses(sql_valid')
       THEN pc' = "gv_validate_code" /\ ret' = ret
       ELSE pc' = "done" /\ ret' = <<"SQL Query Error: ">> \o sql_valid'.reason
    /\ UNCHANGED <<caller, name, sql_query, plotly_code, plotly_valid, export_formats,
                   auto_open, env, base_filename, fig, result, queryCalls,
                   scriptRuns, console, now, calls, dir, last>>

\* marketing_server.py lines 372-388 and core.py lines 78-90: on acceptance
\* generate_chart is entered
GV_ValidateCode ==
    /\ pc = "gv_validate_code"
    /\ plotly_valid' = validate_plotly_code(plotly_code)
    /\ IF CodeCheckPasses(plotly_valid')
       THEN /\ pc' = "gc_execute"
            /\ ret' = ret
            /\ export_formats' = ToolFormats
            /\ auto_open' = ToolAutoOpen
            /\ base_filename' = generate_filename(name)
       ELSE /\ pc' = "done"
            /\ ret' = <<"Plotly Code Error: ">> \o plotly_valid'.reason
            /\ UNCHANGED <<export_formats, auto_open, base_filename>>
    /\ UNCHANGED <<caller, name, sql_query, plotly_code, sql_valid, env, fig, result,
                   queryCalls, scriptRuns, console, now, calls, dir, last>>

\* generate_chart called by another caller than the tool, lines 78-90
CallGenerateChart ==
    /\ pc = "idle"
    /\ \E n \in SampleNames, q \in {ValidQuery}, c \in {ValidCode},
          f \in SampleFormats, o \in BOOLEAN :
          /\ name' = n
          /\ sql_query' = q
          /\ plotly_code' = c
          /\ export_formats' = f
          /\ auto_open' = o
          /\ base_filename' = generate_filename(n)
    /\ caller' = "direct"
    /\ calls < MaxCalls
    /\ calls' = calls + 1
    /\ pc' = "gc_execute"
    /\ last' = [op |-> "call", before |-> dir]
    /\ UNCHANGED <<sql_valid, plotly_valid, env, fig, result, ret, queryCalls,
                   scriptRuns, console, now, dir>>

-----------------------------------------------------------------------------
(* VisualizationEngine.generate_chart *)

QueryOutcomes == {"ok", "raised"}

\* exec(code, ...), line 173, compiles pre_code + plotly_code as one unit before
\* any statement runs: a script that is not valid Python stops it there, and
\* pd.read_sql of the prologue is not reached
ExecOutcomes == QueryOutcomes \cup {"not_compiled"}

\* every exec reaches the query
QueriesAfterExecAlways(n, qo) == n + 1

\* the queries the data source has seen after exec
QueriesAfterExec(n, qo) == IF qo = "not_compiled" THEN n ELSE n + 1

\* the script binds fig, binds no fig, raises an Exception, or raises an exit
\* signal (SystemExit, KeyboardInterrupt), which is no Exception
ScriptOutcomes == {"fig", "nofig", "exception", "exit"}

\* what the script wrote to sys.stdout / sys.stderr before it ended ("" = nothing)
StdoutTexts == {"", "text on stdout"}
StderrTexts == {"", "text on stderr"}

\* the exception classes line 184 catches: `except Exception`
ExecutorCatches(outcome) == outcome = "exception"

\* the lines _execute_visualization_code prints after an exception, 185-188
ExecutorPrints(message, stderr_output) ==
    <<  <<"Error executing visualization code: ", message>> >>
    \o (IF stderr_output # "" THEN << <<"STDERR: ", stderr_output>> >> ELSE <<>>)

\* the entry generate_chart reports when the Executor returned None, line 96
FigureFailure(message, stdout_output, stderr_output) == <<"Failed to generate figure">>

\* lines 81-97 with _execute_visualization_code, lines 146-189: the query and
\* the script run in one exec under redirect_stdout / redirect_stderr
GC_Execute ==
    /\ pc = "gc_execute"
    /\ \E qo \in ExecOutcomes, so \in ScriptOutcomes, f \in Figures,
          out \in StdoutTexts, err \in StderrTexts :
          /\ queryCalls' = QueriesAfterExec(queryCalls, qo)
          /\ IF qo = "not_compiled"
             THEN \* exec raises SyntaxError before the first statement runs
                  /\ out = "" /\ err = "" /\ so = "fig" /\ f = CHOOSE g \in Figures : TRUE
                  /\ scriptRuns' = scriptRuns
                  /\ env' = [env EXCEPT !.query = qo, !.message = "syntax error"]
                  /\ console' = console \o ExecutorPrints("syntax error", "")
                  /\ fig' = NoFig
                  /\ result' = WithError(NoResult, FigureFailure("syntax error", "", ""))
                  /\ pc' = AfterChart
             ELSE IF qo = "raised"
             THEN \* pd.read_sql raised: the script's statements never start
                  /\ out = "" /\ err = "" /\ so = "fig" /\ f.x = "list"
                  /\ scriptRuns' = scriptRuns
                  /\ env' = [env EXCEPT !.query = qo, !.message = "query error"]
                  /\ console' = console \o ExecutorPrints("query error", "")
                  /\ fig' = NoFig
                  /\ result' = WithError(NoResult, FigureFailure("query error", "", ""))
                  /\ pc' = AfterChart
             ELSE /\ scriptRuns' = scriptRuns + 1
                  /\ so # "fig" => f.x = "list"
                  /\ so = "fig" => (out = "" /\ err = "")
                  /\ env' = [env EXCEPT !.query = qo, !.script = so, !.stdout = out,
                                        !.stderr = err,
                                        !.message = IF so \in {"exception", "exit"}
                                                    THEN "script error" ELSE ""]
                  /\ CASE so = "fig" ->
                            /\ fig' = f
                            /\ result' = NoResult
                            /\ console' = console
                            /\ pc' = "gc_json"
                       [] so = "nofig" ->
                            /\ fig' = NoFig
                            /\ result' = WithError(NoResult, FigureFailure("", out, err))
                            /\ console' = Append(console,
                                    <<"Warning: No 'fig' variable found in visualization code">>)
                            /\ pc' = AfterChart
                       [] so \notin {"fig", "nofig"} /\ ExecutorCatches(so) ->
                            /\ fig' = NoFig
                            /\ result' = WithError(NoResult,
                                              FigureFailure("script error", out, err))
                            /\ console' = console \o ExecutorPrints("script error", err)
                            /\ pc' = AfterChart
                       [] OTHER ->
                            \* not caught at line 184 nor at line 129: it leaves
                            \* generate_chart and its callers
                            /\ fig' = NoFig
                            /\ result' = NoResult
                            /\ console' = console
                            /\ pc' = "raised"
    /\ UNCHANGED <<caller, name, sql_query, plotly_code, sql_valid, plotly_valid,
                   export_formats, auto_open, base_filename, ret, now, calls, dir, last>>

\* outcomes of a serialisation to a file: written, raised before the file was
\* created, raised after it was created
WriteOutcomes == {"ok", "raised", "raised_partial"}

ExportFailure == <<"Chart generation failed: ", "export error">>

\* an exception of _export_json / _export_html is swallowed: control goes on
AfterWriteSwallowed(o, next) == next

\* where control goes after a write: on, or through the handler of lines
\* 129-132 to the return, past the exports and line 122 that remain
AfterWrite(o, next) == IF o = "ok" THEN next ELSE AfterChart

\* the directory after `with open(filepath, 'w') as f: f.write(...)` or
\* fig.write_html(filepath): the file complete, not created, or created and
\* left truncated
WriteResult(d, path, content, o) ==
    IF o = "raised" THEN d
    ELSE Written(d, path, IF o = "ok" THEN content ELSE NoFig)

\* lines 99-106 for a request of 'json' and 'html' in which a write fails: the
\* directories the two exports can leave behind
ExportLeaves(d, base, f) ==
    LET json == PathOf(base, "json")
        html == PathOf(base, "html")
        goes_on(o) == AfterWrite(o, "gc_html") = "gc_html"
    IN  { WriteResult(d, json, ToJson(f), o) : o \in {w \in WriteOutcomes : ~goes_on(w)} }
        \cup
        { WriteResult(WriteResult(d, json, ToJson(f), o1), html, ToHtml(f), o2) :
            o1 \in {w \in WriteOutcomes : goes_on(w)}, o2 \in WriteOutcomes \ {"ok"} }

\* lines 100-102 with _export_json, 191-197; an exception goes to line 129
GC_ExportJson ==
    /\ pc = "gc_json"
    /\ IF "json" \notin Range(export_formats)
       THEN pc' = "gc_html" /\ UNCHANGED <<env, result, dir>>
       ELSE \E o \in WriteOutcomes :
              /\ env' = [env EXCEPT !.json = o]
              /\ dir' = WriteResult(dir, PathOf(base_filename, "json"), ToJson(fig), o)
              /\ result' = IF o = "ok"
                           THEN [result EXCEPT !.files =
                                    Put(@, "json", PathOf(base_filename, "json"))]
                           ELSE WithError(result, ExportFailure)
              /\ pc' = AfterWrite(o, "gc_html")
    /\ UNCHANGED <<caller, name, sql_query, plotly_code, sql_valid, plotly_valid,
                   export_formats, auto_open, base_filename, fig, ret, queryCalls,
                   scriptRuns, console, now, calls, last>>

\* lines 104-106 with _export_html, 199-203
GC_ExportHtml ==
    /\ pc = "gc_html"
    /\ IF "html" \notin Range(export_formats)
       THEN pc' = "gc_png" /\ UNCHANGED <<env, result, dir>>
       ELSE \E o \in WriteOutcomes :
              /\ env' = [env EXCEPT !.html = o]
              /\ dir' = WriteResult(dir, PathOf(base_filename, "html"), ToHtml(fig), o)
              /\ result' = IF o = "ok"
                           THEN [result EXCEPT !.files =
                                    Put(@, "html", PathOf(base_filename, "html"))]
                           ELSE WithError(result, ExportFailure)
              /\ pc' = AfterWrite(o, "gc_png")
    /\ UNCHANGED <<caller, name, sql_query, plotly_code, sql_valid, plotly_valid,
                   export_formats, auto_open, base_filename, fig, ret, queryCalls,
                   scriptRuns, console, now, calls, last>>

\* the renderer wrote the image, kaleido is not installed, or write_image raised
RenderOutcomes == {"ok", "import_error", "failed"}

\* the path is returned although nothing was rendered
RenderReturnsAlways(o, path) == <<path>>

\* what _export_png / _export_svg return: the path, or None after the
\* ImportError and Exception handlers of lines 212-217 and 226-231
RenderReturns(o, path) == IF o = "ok" THEN <<path>> ELSE <<>>

RenderWarning(ext, o) ==
    IF o = "import_error"
    THEN <<"Warning: kaleido not installed, export unavailable", ext>>
    ELSE <<"Warning: export failed", ext>>

\* fig.write_image(filepath, ...), lines 210 and 224: the rendered image
ToImage(f) == [kind |-> "image"]

\* `if 'png' in export_formats:` ... `if png_path:` with _export_png / _export_svg
ExportImage(ext, next) ==
    IF ext \notin Range(export_formats)
    THEN pc' = next /\ UNCHANGED <<env, result, dir, console>>
    ELSE \E o \in RenderOutcomes :
           LET returned == RenderReturns(o, PathOf(base_filename, ext)) IN
           /\ env' = [env EXCEPT ![ext] = o]
           /\ dir' = IF o = "ok" THEN Written(dir, PathOf(base_filename, ext), ToImage(fig))
                     ELSE dir
           /\ console' = IF o = "ok" THEN console
                         ELSE Append(console, RenderWarning(ext, o))
           /\ result' = IF returned # <<>>
                        THEN [result EXCEPT !.files = Put(@, ext, returned[1])]
                        ELSE result
           /\ pc' = next

\* lines 108-111 with _export_png, 205-217
GC_ExportPng ==
    /\ pc = "gc_png"
    /\ ExportImage("png", "gc_svg")
    /\ UNCHANGED <<caller, name, sql_query, plotly_code, sql_valid, plotly_valid,
                   export_formats, auto_open, base_filename, fig, ret, queryCalls,
                   scriptRuns, now, calls, last>>

\* lines 113-116 with _export_svg, 219-231
GC_ExportSvg ==
    /\ pc = "gc_svg"
    /\ ExportImage("svg", "gc_finish")
    /\ UNCHANGED <<caller, name, sql_query, plotly_code, sql_valid, plotly_valid,
                   export_formats, auto_open, base_filename, fig, ret, queryCalls,
                   scriptRuns, now, calls, last>>

\* len(fig.data[0].x) if fig.data and hasattr(fig.data[0], 'x') else 0, line 126
DataPoints(f) == IF f.x = "list" THEN 2 ELSE 0

\* getattr(fig.layout, 'title', {}).get('text', name), line 124: the text of a
\* titled figure; for an untitled one None or the default, "name" standing for
\* the caller's chart name, as the figure library's lookup decides
ChartDataTitles(f) == IF f.title = "None" THEN {"None", "name"} ELSE {f.title}

\* lines 118-127: the viewer is opened, success is set, then chart_data is
\* computed; len(None) raises when the first trace has x left None, and the
\* title lookup of line 124 raises or not as the figure library decides
GC_Finish ==
    /\ pc = "gc_finish"
    /\ \E b \in {"ok", "failed"}, cd \in {"ok", "raised"}, t \in ChartDataTitles(fig) :
          /\ fig.x = "None" => cd = "raised"
          /\ cd = "raised" => t \in {"None", fig.title}
          /\ IF auto_open /\ "html" \in DOMAIN result.files
             THEN /\ env' = [env EXCEPT !.browser = b, !.chart_data = cd]
                  /\ console' = IF b = "ok" THEN console
                                ELSE Append(console, <<"Warning: Could not open browser">>)
             ELSE /\ b = "ok"
                  /\ env' = [env EXCEPT !.chart_data = cd]
                  /\ console' = console
          /\ result' =
                IF cd = "ok"
                THEN [result EXCEPT !.success = TRUE,
                                    !.chart_data = [present |-> TRUE, title |-> t,
                                                    data_points |-> DataPoints(fig)]]
                ELSE WithError([result EXCEPT !.success = TRUE],
                               <<"Chart generation failed: ", "chart_data error">>)
    /\ pc' = AfterChart
    /\ UNCHANGED <<caller, name, sql_query, plotly_code, sql_valid, plotly_valid,
                   export_formats, auto_open, base_filename, fig, ret, queryCalls,
                   scriptRuns, now, calls, dir, last>>

\* marketing_server.py lines 390-411: the summary text, and after a success
\* one more query by ChartUtils.preview_data, whose failure is swallowed
GV_Summary ==
    /\ pc = "gv_summary"
    /\ IF result.success
       THEN \E p \in QueryOutcomes :
              /\ env' = [env EXCEPT !.preview = p]
              /\ queryCalls' = queryCalls + 1
              /\ ret' = <<"Chart Generated Successfully!">>
                        \o (IF p = "ok" THEN <<"Quick Preview:">> ELSE <<>>)
       ELSE /\ ret' = <<"Chart Generation Failed">> \o Concat(result.errors)
            /\ UNCHANGED <<env, queryCalls>>
    /\ pc' = "done"
    /\ UNCHANGED <<caller, name, sql_query, plotly_code, sql_valid, plotly_valid,
                   export_formats, auto_open, base_filename, fig, result,
                   scriptRuns, console, now, calls, dir, last>>

-----------------------------------------------------------------------------
(* VisualizationEngine.cleanup_old_charts *)

\* 24 * 60 * 60, line 322 (one tick of the clock is one second)
SecondsPerDay == 86400

\* keep_days values callers pass
SampleKeepDays == {0, 1}

\* the retention period is added to the current time
CutoffTimeAhead(keep_days) == now + keep_days * SecondsPerDay

\* datetime.now().timestamp() - (keep_days * 24 * 60 * 60), line 322
CutoffTime(keep_days) == now - keep_days * SecondsPerDay

\* the age of an entry is taken from the primary file of its artifact
getmtimeOfPrimary(d, f) ==
    IF <<f[1], "html">> \in DOMAIN d THEN d[<<f[1], "html">>].mtime ELSE d[f].mtime

\* os.path.getmtime(filepath), lines 280 and 327: the entry's own time
getmtime(d, f) == d[f].mtime

\* every attempted removal is counted
DeletedCountOfAttempts(old, stuck) == Cardinality(old)

\* deleted_count += 1 follows os.remove inside the try, lines 328-330: an entry
\* whose removal raised is not counted
DeletedCount(old, stuck) == Cardinality(old \ stuck)

\* the comparison of line 327 made inclusive
EligibleInclusive(mtime, cutoff_time) == mtime <= cutoff_time

\* os.path.getmtime(filepath) < cutoff_time, line 327
Eligible(mtime, cutoff_time) == mtime < cutoff_time

\* lines 319-334: every entry of the directory is aged on its own; os.remove can
\* fail for an entry (here for at most one), which is printed and not counted
CleanupOldCharts ==
    /\ pc = "idle"
    /\ \E keep_days \in SampleKeepDays :
          LET cutoff_time == CutoffTime(keep_days)
              old == {f \in DOMAIN dir : Eligible(getmtime(dir, f), cutoff_time)}
          IN  \E stuck \in {{}} \cup {{f} : f \in old} :
                /\ dir' = [f \in (DOMAIN dir) \ (old \ stuck) |-> dir[f]]
                /\ console' = [i \in 1..Cardinality(stuck) |->
                                  <<"Warning: Could not delete">>]
                /\ last' = [op |-> "cleanup", before |-> dir, keep_days |-> keep_days,
                            at |-> now, failed |-> stuck,
                            deleted_count |-> DeletedCount(old, stuck)]
    /\ caller' = "cleanup"
    /\ pc' = "done"
    /\ UNCHANGED <<name, sql_query, plotly_code, sql_valid, plotly_valid,
                   export_formats, auto_open, env, base_filename, fig, result, ret,
                   queryCalls, scriptRuns, now, calls>>

-----------------------------------------------------------------------------
(* VisualizationEngine.list_recent_charts *)

\* limit: int = 10, line 261
DefaultLimit == 10

\* limit values callers pass: negative, zero, small, and the default
SampleLimits == {-1, 0, 1, 2, DefaultLimit}

\* every entry of the directory is taken for a chart
IsAnyFile(p) == TRUE

\* f.endswith('.html'), line 277
IsPrimary(p) == p[2] = "html"

\* the entries os.listdir returns that line 277 keeps
HtmlFiles(d) == {p \in DOMAIN d : IsPrimary(p)}

\* the entries with the smallest modification time
Oldest(d, S) == {p \in S : \A q \in S : getmtime(d, p) <= getmtime(d, q)}

\* the entries a descending sort by os.path.getmtime can put first
Newest(d, S) == {p \in S : \A q \in S : getmtime(d, p) >= getmtime(d, q)}

\* html_files.sort(key=getmtime, reverse=True), line 280: the sort is stable
\* and os.listdir returns the entries in arbitrary order, so entries of equal
\* modification time come out in any order
RECURSIVE SortedNewestFirst(_, _)
SortedNewestFirst(d, S) ==
    IF S = {} THEN { <<>> }
    ELSE UNION { { <<p>> \o rest : rest \in SortedNewestFirst(d, S \ {p}) } :
                 p \in Newest(d, S) }

Min(a, b) == IF a <= b THEN a ELSE b
Max(a, b) == IF a >= b THEN a ELSE b

\* the slice stops one entry early
SliceShort(s, limit) == SubSeq(s, 1, Min(limit, Len(s)) - 1)

\* html_files[:limit], line 282: a negative limit counts from the end
Slice(s, limit) ==
    IF limit >= 0 THEN SubSeq(s, 1, Min(limit, Len(s)))
    ELSE SubSeq(s, 1, Max(Len(s) + limit, 0))

\* available_formats, lines 298-303: 'html' always, 'json' and 'png' when the
\* sibling exists; 'svg' is never listed
AvailableFormats(d, base) ==
    <<"html">>
    \o (IF PathOf(base, "json") \in DOMAIN d THEN <<"json">> ELSE <<>>)
    \o (IF PathOf(base, "png") \in DOMAIN d THEN <<"png">> ELSE <<>>)

\* the record of lines 287-303 for the file p; filename[:-5] is its base name
\* (the 'size' field enters no property and is left out)
ChartInfo(d, p) ==
    [name |-> p[1],
     html_path |-> p,
     json_path |-> PathOf(p[1], "json"),
     png_path |-> PathOf(p[1], "png"),
     modified |-> getmtime(d, p),
     available_formats |-> AvailableFormats(d, p[1])]

\* list_recent_charts(limit), lines 276-307, for one order the sort produced
list_recent_charts(d, order, limit) ==
    LET kept == Slice(order, limit)
    IN  [i \in 1..Len(kept) |-> ChartInfo(d, kept[i])]

\* a caller lists the charts
ListRecentCharts ==
    /\ pc = "idle"
    /\ \E limit \in SampleLimits, order \in SortedNewestFirst(dir, HtmlFiles(dir)) :
          last' = [op |-> "list", before |-> dir, limit |-> limit,
                   charts |-> list_recent_charts(dir, order, limit)]
    /\ caller' = "list"
    /\ pc' = "done"
    /\ UNCHANGED <<name, sql_query, plotly_code, sql_valid, plotly_valid,
                   export_formats, auto_open, env, base_filename, fig, result, ret,
                   queryCalls, scriptRuns, console, now, calls, dir>>

-----------------------------------------------------------------------------
(* ChartDisplayManager.display_chart_quick_preview and ChartViewer.view_chart *)

\* the documents a structured file can hold: not JSON at all (kind "none"), JSON
\* that is no object, and objects with or without a layout, a title (a string,
\* an object with or without a text, absent) and traces
TitleForms ==
    { [form |-> "absent", text |-> ""],
      [form |-> "string", text |-> "T"],
      [form |-> "string", text |-> ""],
      [form |-> "object", text |-> "T"],
      [form |-> "object_no_text", text |-> ""],
      [form |-> "object_null_text", text |-> ""] }

PreviewDocs ==
    { doc \in [kind : {"json"}, top : {"object", "other"},
               layout : {"absent", "null", "object"}, title : TitleForms,
               data : {"absent", "empty", "traces"},
               trace_type : {"absent", "bar", "number"},
               x : {"absent", "empty", "list", "long"},
               y : {"absent", "list", "long_mixed"}] :
        /\ doc.top = "other" => (doc.layout = "absent" /\ doc.data = "absent")
        /\ doc.layout # "object" => doc.title.form = "absent"
        /\ doc.data # "traces" => (doc.trace_type = "absent" /\ doc.x = "absent")
        /\ doc.x # "list" => doc.y = "absent" }
    \cup { NoFig }

\* the number of entries of a trace's x in the document
LenX(x) == CASE x = "list" -> 2 [] x = "long" -> 6 [] OTHER -> 0

\* the exception, if any, the statements of lines 245-287 raise on a document
PreviewException(doc) ==
    CASE doc.kind # "json" -> "JSONDecodeError"              \* json.load, line 246
      [] doc.top # "object" -> "AttributeError"              \* chart_data.get, line 249
      [] doc.layout = "null" -> "AttributeError"             \* layout.get, line 250
      [] doc.title.form = "object_null_text" -> "TypeError"  \* len(title_text), line 260
      [] doc.data = "traces" /\ doc.trace_type = "number" -> "AttributeError"  \* line 270
      [] doc.data = "traces" /\ doc.y = "long_mixed" -> "TypeError"    \* min(y_data), line 283
      [] OTHER -> "none"

\* title_text, lines 250-254
TitleText(doc) ==
    CASE doc.layout # "object" -> "Untitled Chart"
      [] doc.title.form \in {"absent", "object_no_text"} -> "Untitled Chart"
      [] doc.title.form = "string" ->
            IF doc.title.text = "" THEN "Untitled Chart" ELSE doc.title.text
      [] OTHER -> doc.title.text

\* only a decode error is handled
PreviewCatchesDecodeError(exc) == exc = "JSONDecodeError"

\* `except Exception`, line 289: every exception of these statements
PreviewCatches(exc) == exc \in {"JSONDecodeError", "AttributeError", "TypeError"}

NoPreview == [title |-> "", chart_type |-> "", points_line |-> FALSE, data_points |-> 0]

\* display.py lines 241-290: the title and the "Data Points" line read back from
\* the structured file; a missing file and an unreadable document are reported
\* as text
display_chart_quick_preview(d, json_path) ==
    IF json_path \notin DOMAIN d
    THEN [kind |-> "not_found"] @@ NoPreview
    ELSE LET doc == d[json_path].content
             exc == PreviewException(doc)
         IN  IF exc # "none"
             THEN [kind |-> IF PreviewCatches(exc) THEN "error" ELSE "raised"] @@ NoPreview
             ELSE [kind |-> "preview",
                   title |-> TitleText(doc),
                   chart_type |-> CASE doc.data # "traces" -> ""
                                    [] doc.trace_type = "absent" -> "Unknown"
                                    [] OTHER -> "Bar",
                   points_line |-> doc.data = "traces" /\ LenX(doc.x) > 0,
                   data_points |-> IF doc.data = "traces" THEN LenX(doc.x) ELSE 0]

\* the file is opened for writing: it is emptied
OpenedForWriting(d, path) ==
    IF path \in DOMAIN d THEN (path :> [mtime |-> now, content |-> NoFig]) @@ d ELSE d

\* open(json_path, 'r'), line 245: the directory after the file was read
Opened(d, path) == d

\* a caller previews the structured file of an artifact
PreviewPaths == { PathOf(<< <<"A", "b">>, 0 >>, "json") }

QuickPreview ==
    /\ pc = "idle"
    /\ \E json_path \in PreviewPaths :
          LET shown == display_chart_quick_preview(dir, json_path) IN
          /\ last' = [op |-> "preview", before |-> dir, json_path |-> json_path,
                      shown |-> shown]
          /\ pc' = IF shown.kind = "raised" THEN "raised" ELSE "done"
          /\ dir' = Opened(dir, json_path)
    /\ caller' = "preview"
    /\ UNCHANGED <<name, sql_query, plotly_code, sql_valid, plotly_valid,
                   export_formats, auto_open, env, base_filename, fig, result, ret,
                   queryCalls, scriptRuns, console, now, calls>>

\* ' '.join(name_parts[:-2]), display.py lines 214-215: the base name without
\* its date and time, the underscores of the cleaned name turned into spaces
GalleryName(base) ==
    [i \in DOMAIN base[1] |-> IF base[1][i] = "_" THEN " " ELSE base[1][i]]

\* show_chart_gallery, display.py lines 196-229: a text made of the records
\* alone
show_chart_gallery(charts) ==
    IF charts = <<>>
    THEN << <<"[CHARTS] No charts found. Generate your first chart!">> >>
    ELSE << <<"[CHARTS] Recent Charts Gallery">> >>
         \o [i \in 1..Len(charts) |->
                <<i, GalleryName(charts[i].name), charts[i].modified,
                  charts[i].available_formats>>]
         \o << <<"TIP: To view a chart, note its number and use the chart viewer.">> >>

\* ChartViewer.list_charts(limit), chart_viewer.py lines 30-34
ListCharts ==
    /\ pc = "idle"
    /\ \E limit \in SampleLimits, order \in SortedNewestFirst(dir, HtmlFiles(dir)) :
          LET charts == list_recent_charts(dir, order, limit) IN
          /\ last' = [op |-> "gallery", before |-> dir, limit |-> limit,
                      charts |-> charts]
          /\ console' = show_chart_gallery(charts)
    /\ caller' = "gallery"
    /\ pc' = "done"
    /\ UNCHANGED <<name, sql_query, plotly_code, sql_valid, plotly_valid,
                   export_formats, auto_open, env, base_filename, fig, result, ret,
                   queryCalls, scriptRuns, now, calls, dir>>

DigitChar(n) == <<"0", "1", "2", "3", "4", "5", "6", "7", "8", "9">>[n + 1]

\* the decimal digits of the timestamp (strftime, line 52)
RECURSIVE DecimalDigits(_)
DecimalDigits(n) ==
    IF n < 10 THEN <<DigitChar(n)>>
    ELSE DecimalDigits(n \div 10) \o <<DigitChar(n % 10)>>

\* f"{clean_name}_{timestamp}", line 53: the text of a base name
BaseText(base) == base[1] \o <<"_">> \o DecimalDigits(base[2])

\* chart_name.lower() in c['name'].lower(), chart_viewer.py line 41
Matches(fragment, c) == Contains(Lower(BaseText(c.name)), Lower(fragment))

\* the name fragments and format types a user of the viewer enters
SampleFragments == { <<"a", "B">>, <<"_">>, <<"z">> }
FormatTypes == {"html", "preview", "info"}

NoChart == [name |-> <<>>]

\* chart_viewer.py lines 36-68: the listing is made with the default limit, the
\* first matching record is taken and shown as format_type asks; without a
\* match the error and the gallery of list_charts(10) are printed
ViewChart ==
    /\ pc = "idle"
    /\ \E chart_name \in SampleFragments, format_type \in FormatTypes,
          order \in SortedNewestFirst(dir, HtmlFiles(dir)),
          opened \in BOOLEAN :
          LET charts == list_recent_charts(dir, order, DefaultLimit)
              matching_charts == SelectSeq(charts, LAMBDA c : Matches(chart_name, c))
          IN  IF matching_charts = <<>>
              THEN /\ opened
                   /\ format_type = "html"
                   /\ console' = << <<"ERROR: No charts found matching">>,
                                    <<"Available charts:">> >>
                                 \o show_chart_gallery(list_recent_charts(dir, order, 10))
                   /\ last' = [op |-> "view", before |-> dir, fragment |-> chart_name,
                               format_type |-> format_type, charts |-> charts,
                               found |-> FALSE, chart |-> NoChart]
              ELSE LET chart == matching_charts[1] IN
                   /\ format_type # "html" => opened
                   /\ console' =
                         CASE format_type = "html" ->
                                << <<"Opening in browser">> >>
                                \o (IF opened THEN <<>>
                                    ELSE << <<"ERROR: Failed to open browser">> >>)
                           [] format_type = "preview" ->
                                IF "json" \in Range(chart.available_formats)
                                THEN << <<"preview",
                                          display_chart_quick_preview(dir, chart.json_path)>> >>
                                ELSE << <<"ERROR: Preview not available">> >>
                           [] OTHER -> << <<"Chart Information">> >>
                   /\ last' = [op |-> "view", before |-> dir, fragment |-> chart_name,
                               format_type |-> format_type, charts |-> charts,
                               found |-> TRUE, chart |-> chart]
    /\ caller' = "view"
    /\ pc' = "done"
    /\ UNCHANGED <<name, sql_query, plotly_code, sql_valid, plotly_valid,
                   export_formats, auto_open, env, base_filename, fig, result, ret,
                   queryCalls, scriptRuns, now, calls, dir>>

\* the call is over (or the process has ended and a new one starts): the next
\* request begins with fresh locals; the clock and the directory stay
Return ==
    /\ pc \in {"done", "raised"}
    /\ pc' = "idle"
    /\ caller' = "none"
    /\ name' = <<>>
    /\ sql_query' = <<>>
    /\ plotly_code' = <<>>
    /\ sql_valid' = Pending
    /\ plotly_valid' = Pending
    /\ export_formats' = <<>>
    /\ auto_open' = FALSE
    /\ env' = Unrun
    /\ base_filename' = <<>>
    /\ fig' = NoFig
    /\ result' = NoResult
    /\ ret' = <<>>
    /\ queryCalls' = 0
    /\ scriptRuns' = 0
    /\ console' = <<>>
    /\ last' = NoLast
    /\ UNCHANGED <<now, dir, calls>>

Next ==
    \/ Tick
    \/ CallTool
    \/ GV_ValidateSql
    \/ GV_ValidateCode
    \/ CallGenerateChart
    \/ GC_Execute
    \/ GC_ExportJson
    \/ GC_ExportHtml
    \/ GC_ExportPng
    \/ GC_ExportSvg
    \/ GC_Finish
    \/ GV_Summary
    \/ CleanupOldCharts
    \/ ListRecentCharts
    \/ Return

Spec == Init /\ [][Next]_vars

-----------------------------------------------------------------------------
(* SpecRepo: the repository operations over the directories a process can   *)
(* find at construction, left there by earlier processes and other actors.  *)

BaseA == << <<"A", "b">>, 0 >>
BaseB == << <<"c">>, 1 >>

\* the files of two artifacts
RepoPaths == {BaseA, BaseB} \X {"html", "json", "png"}

\* a structured file holds a document, the other files are opaque here
RepoContent(ext) ==
    IF ext = "json" THEN ToJson([kind |-> "fig", title |-> "T", x |-> "list"]) ELSE NoFig

\* directories of at most two artifacts, every file with its own time
SmallDirs ==
    UNION { [S -> 0..MaxTime] : S \in SUBSET RepoPaths }

\* a directory of more primary files than the default limit: BaseA is the
\* oldest, the others have the times 1..DefaultLimit
CrowdPaths == {PathOf(BaseA, "html")} \cup {PathOf(<< <<"c">>, i >>, "html") : i \in 1..DefaultLimit}
CrowdDir == [p \in CrowdPaths |-> p[1][2]]

RepoDirs == SmallDirs \cup {CrowdDir}

\* the current time: within the first seconds, or more than a day later
RepoTimes == (0..MaxTime) \cup {SecondsPerDay + DefaultLimit}

InitRepo ==
    /\ sql_query = <<>>
    /\ plotly_code = <<>>
    /\ InitRest
    /\ calls = 0
    /\ now \in RepoTimes
    /\ \E times \in RepoDirs :
          /\ \A p \in DOMAIN times : times[p] <= now
          /\ dir = [p \in DOMAIN times |->
                      [mtime |-> times[p], content |-> RepoContent(p[2])]]

NextRepo ==
    \/ ListRecentCharts
    \/ ListCharts
    \/ QuickPreview
    \/ ViewChart
    \/ CleanupOldCharts
    \/ Return

SpecRepo == InitRepo /\ [][NextRepo]_vars

-----------------------------------------------------------------------------
(* ChartDisplayManager.create_ascii_chart, and its specification SpecAscii  *)

\* data.nlargest(10, values_col), line 138
TopN == 10

\* max_bar_length, line 149
max_bar_length == 30

\* values of the second column
DataValues == {-3, 0, 2, 7, 30}

RECURSIVE SeqsUpTo(_, _)
SeqsUpTo(S, n) ==
    IF n = 0 THEN { <<>> }
    ELSE LET shorter == SeqsUpTo(S, n - 1)
         IN  shorter \cup { Append(q, v) : q \in shorter, v \in S }

\* a column of more rows than the chart shows
LongColumn == [i \in 1..(TopN + 1) |-> i]

\* the second column of the frames: short ones, and long ones that end in a
\* short one
ValueColumns ==
    SeqsUpTo(DataValues, MaxRows) \cup { LongColumn \o q : q \in SeqsUpTo(DataValues, 1) }

\* the data frames: one or two columns, the second numeric or of strings
DataFrames ==
    { df \in [columns : {1, 2}, dtype : {"int64", "object"}, values : ValueColumns] :
        df.columns = 1 => df.dtype = "int64" }

\* the position of the first largest value of a column
FirstLargest(col) ==
    CHOOSE i \in DOMAIN col :
        /\ \A j \in DOMAIN col : col[j].value <= col[i].value
        /\ \A j \in DOMAIN col : col[j].value = col[i].value => i <= j

Without(col, i) == [j \in 1..(Len(col) - 1) |-> IF j < i THEN col[j] ELSE col[j + 1]]

\* DataFrame.nlargest(n, column): the n rows of largest value in descending
\* order, rows of equal value in their order in the frame
RECURSIVE nlargest(_, _)
nlargest(n, col) ==
    IF n = 0 \/ col = <<>> THEN <<>>
    ELSE LET i == FirstLargest(col)
         IN  <<col[i]>> \o nlargest(n - 1, Without(col, i))

\* chart_data[values_col].max(), line 148
MaxValue(col) == col[FirstLargest(col)].value

\* int(x) of a quotient a / b with b > 0: the fraction is cut off towards zero
Trunc(a, b) == IF a >= 0 THEN a \div b ELSE -((-a) \div b)

\* the bar is as long as the value
BarLengthUnscaled(value, max_value) == value

\* bar_length, lines 156-159
BarLength(value, max_value) ==
    IF max_value > 0 THEN Trunc(value * max_bar_length, max_value) ELSE 0

\* "█" * bar_length, line 162: a negative count gives the empty string
Blocks(bar_length) == IF bar_length > 0 THEN bar_length ELSE 0

\* _create_ascii_bar_chart, lines 128-172, on a frame of two numeric columns
create_ascii_bar_chart(df) ==
    LET rows == [i \in DOMAIN df.values |-> [label |-> i, value |-> df.values[i]]]
        chart_data == nlargest(TopN, rows)
        max_value == MaxValue(chart_data)
    IN  [kind |-> "bar",
         rows |-> [i \in DOMAIN chart_data |->
                     [label |-> chart_data[i].label,
                      value |-> chart_data[i].value,
                      blocks |-> Blocks(BarLength(chart_data[i].value, max_value))]]]

\* create_ascii_chart(data, 'bar'), lines 88-96 and 130-141: an empty frame and
\* a frame of one column get another text; nlargest raises TypeError on a
\* column of strings
create_ascii_chart(df) ==
    CASE df.values = <<>> -> [kind |-> "no_data", rows |-> <<>>]
      [] df.columns < 2 -> [kind |-> "table", rows |-> <<>>]
      [] df.dtype = "object" -> [kind |-> "raised", rows |-> <<>>]
      [] OTHER -> create_ascii_bar_chart(df)

CreateAsciiChart ==
    /\ pc = "idle"
    /\ \E df \in DataFrames :
          LET out == create_ascii_chart(df) IN
          /\ last' = [op |-> "ascii", data |-> df, out |-> out]
          /\ pc' = IF out.kind = "raised" THEN "raised" ELSE "done"
    /\ caller' = "ascii"
    /\ UNCHANGED <<name, sql_query, plotly_code, sql_valid, plotly_valid,
                   export_formats, auto_open, env, base_filename, fig, result, ret,
                   queryCalls, scriptRuns, console, now, calls, dir>>

NextAscii ==
    \/ CreateAsciiChart
    \/ Return

SpecAscii == Init /\ [][NextAscii]_vars

-----------------------------------------------------------------------------
(* SpecRace: list_recent_charts and cleanup_old_charts statement by         *)
(* statement, while another process or an eviction pass of another engine   *)
(* deletes files of the same directory.                                     *)

RacePaths == {PathOf(BaseA, "html"), PathOf(BaseA, "json"), PathOf(BaseB, "html")}

InitRace ==
    /\ sql_query = <<>>
    /\ plotly_code = <<>>
    /\ InitRest
    /\ calls = 0
    /\ now = MaxTime
    /\ \E S \in SUBSET RacePaths : \E times \in [S -> 0..MaxTime] :
          dir = [p \in S |-> [mtime |-> times[p], content |-> RepoContent(p[2])]]

\* os.listdir and the filter of lines 276-277: the names are in hand, the
\* files are not read yet
LS_Enumerate ==
    /\ pc = "idle"
    /\ \E limit \in {1, DefaultLimit} :
          last' = [op |-> "list", before |-> dir, limit |-> limit,
                   html_files |-> HtmlFiles(dir), kept |-> <<>>, charts |-> <<>>]
    /\ caller' = "list"
    /\ pc' = "ls_sort"
    /\ UNCHANGED <<name, sql_query, plotly_code, sql_valid, plotly_valid,
                   export_formats, auto_open, env, base_filename, fig, result, ret,
                   queryCalls, scriptRuns, console, now, calls, dir>>

\* html_files.sort(key=... os.path.getmtime ...), line 280, and the slice of
\* line 282: getmtime raises FileNotFoundError for a name whose file is gone,
\* and no handler is around it
LS_Sort ==
    /\ pc = "ls_sort"
    /\ IF last.html_files \subseteq DOMAIN dir
       THEN \E order \in SortedNewestFirst(dir, last.html_files) :
               /\ last' = [last EXCEPT !.kept = Slice(order, last.limit)]
               /\ pc' = "ls_read"
       ELSE /\ last' = last
            /\ pc' = "raised"
    /\ UNCHANGED <<caller, name, sql_query, plotly_code, sql_valid, plotly_valid,
                   export_formats, auto_open, env, base_filename, fig, result, ret,
                   queryCalls, scriptRuns, console, now, calls, dir>>

\* one round of the loop of lines 282-305: getmtime and getsize of the next
\* kept file, again without a handler
LS_Read ==
    /\ pc = "ls_read"
    /\ IF last.kept = <<>>
       THEN last' = last /\ pc' = "done"
       ELSE IF Head(last.kept) \in DOMAIN dir
            THEN /\ last' = [last EXCEPT !.kept = Tail(@),
                                         !.charts = Append(@, ChartInfo(dir, Head(last.kept)))]
                 /\ pc' = "ls_read"
            ELSE last' = last /\ pc' = "raised"
    /\ UNCHANGED <<caller, name, sql_query, plotly_code, sql_valid, plotly_valid,
                   export_formats, auto_open, env, base_filename, fig, result, ret,
                   queryCalls, scriptRuns, console, now, calls, dir>>

\* lines 319-325: the cutoff is computed and the directory is enumerated
CL_Enumerate ==
    /\ pc = "idle"
    /\ \E keep_days \in SampleKeepDays :
          last' = [op |-> "cleanup", before |-> dir, keep_days |-> keep_days,
                   at |-> now, failed |-> {}, deleted_count |-> 0,
                   remaining |-> DOMAIN dir]
    /\ caller' = "cleanup"
    /\ pc' = "cl_loop"
    /\ UNCHANGED <<name, sql_query, plotly_code, sql_valid, plotly_valid,
                   export_formats, auto_open, env, base_filename, fig, result, ret,
                   queryCalls, scriptRuns, console, now, calls, dir>>

\* one round of the loop of lines 325-332, for the entries in the order
\* os.listdir gave them: getmtime is outside the try, os.remove inside it
CL_Step ==
    /\ pc = "cl_loop"
    /\ IF last.remaining = {}
       THEN pc' = "done" /\ UNCHANGED <<last, dir, console>>
       ELSE \E f \in last.remaining, removable \in BOOLEAN :
               IF f \notin DOMAIN dir
               THEN pc' = "raised" /\ removable /\ UNCHANGED <<last, dir, console>>
               ELSE IF ~Eligible(getmtime(dir, f), last.at - last.keep_days * SecondsPerDay)
                    THEN /\ removable
                         /\ last' = [last EXCEPT !.remaining = @ \ {f}]
                         /\ pc' = "cl_loop"
                         /\ UNCHANGED <<dir, console>>
                    ELSE IF removable
                         THEN /\ dir' = [g \in (DOMAIN dir) \ {f} |-> dir[g]]
                              /\ last' = [last EXCEPT !.remaining = @ \ {f},
                                                      !.deleted_count = @ + 1]
                              /\ pc' = "cl_loop"
                              /\ console' = console
                         ELSE /\ console' = Append(console, <<"Warning: Could not delete">>)
                              /\ last' = [last EXCEPT !.remaining = @ \ {f},
                                                      !.failed = @ \cup {f}]
                              /\ pc' = "cl_loop"
                              /\ dir' = dir
    /\ UNCHANGED <<caller, name, sql_query, plotly_code, sql_valid, plotly_valid,
                   export_formats, auto_open, env, base_filename, fig, result, ret,
                   queryCalls, scriptRuns, now, calls>>

\* another process deletes a file while an operation is in flight
ExternalDelete ==
    /\ pc \in {"ls_sort", "ls_read", "cl_loop"}
    /\ \E f \in DOMAIN dir : dir' = [g \in (DOMAIN dir) \ {f} |-> dir[g]]
    /\ UNCHANGED <<pc, caller, name, sql_query, plotly_code, sql_valid, plotly_valid,
                   export_formats, auto_open, env, base_filename, fig, result, ret,
                   queryCalls, scriptRuns, console, now, calls, last>>

NextRace ==
    \/ LS_Enumerate
    \/ LS_Sort
    \/ LS_Read
    \/ CL_Enumerate
    \/ CL_Step
    \/ ExternalDelete
    \/ Return

SpecRace == InitRace /\ [][NextRace]_vars

-----------------------------------------------------------------------------
(* SpecEmbed: the code _execute_visualization_code assembles around a query *)
(* and what the Python tokenizer makes of it.                               *)

Quote == "\""

\* the delimiter of the literal in text("""{sql_query}"""), line 159
TripleQuote == <<Quote, Quote, Quote>>

\* fragments of the queries of this specification (no backslash among them)
EmbedFragments == {
    <<"s", "e", "l", "e", "c", "t">>,
    <<" ">>,
    <<"x">>,
    <<Quote>>,
    TripleQuote,
    <<")", ";", "p", "(">> }

EmbedInputs == TextsOf(EmbedFragments, MaxSqlFrags)

\* the first position at which p occurs in s
FirstAt(s, p) ==
    CHOOSE i \in 1..Len(s) :
        /\ SubSeq(s, i, i + Len(p) - 1) = p
        /\ \A j \in 1..(i - 1) : SubSeq(s, j, j + Len(p) - 1) # p

\* the f-string of lines 151-162 pastes the query between the delimiters; the
\* tokenizer ends the literal at the first delimiter after its start: `literal`
\* is the string handed to text(), `outside` is what follows it up to and
\* including the delimiter of the template, read as Python source
Embedded(query) ==
    LET pasted == query \o TripleQuote
        end == FirstAt(pasted, TripleQuote)
    IN  [literal |-> SubSeq(pasted, 1, end - 1),
         outside |-> SubSeq(pasted, end + Len(TripleQuote), Len(pasted))]

InitEmbed ==
    /\ sql_query \in EmbedInputs
    /\ plotly_code = ValidCode
    /\ InitRest
    /\ now = 0
    /\ dir = << >>
    /\ calls = 0

\* marketing_server.py lines 368-370 and core.py lines 151-165: the query is
\* validated and, when accepted, pasted into the code that exec is given
AssembleCode ==
    /\ pc = "idle"
    /\ sql_valid' = validate_sql_query(sql_query)
    /\ last' = IF sql_valid'.ok
               THEN [op |-> "exec", query |-> sql_query,
                     literal |-> Embedded(sql_query).literal,
                     outside |-> Embedded(sql_query).outside]
               ELSE [op |-> "rejected", query |-> sql_query]
    /\ caller' = "tool"
    /\ pc' = "done"
    /\ UNCHANGED <<name, sql_query, plotly_code, plotly_valid,
                   export_formats, auto_open, env, base_filename, fig, result, ret,
                   queryCalls, scriptRuns, console, now, calls, dir>>

NextEmbed ==
    \/ AssembleCode
    \/ Return

SpecEmbed == InitEmbed /\ [][NextEmbed]_vars

-----------------------------------------------------------------------------
(* SpecPreview: display_chart_quick_preview on every document a structured *)
(* file can hold, and on a missing file.                                    *)

InitPreview ==
    /\ sql_query = <<>>
    /\ plotly_code = <<>>
    /\ InitRest
    /\ calls = 0
    /\ now = 0
    /\ \/ dir = << >>
       \/ \E p \in PreviewPaths, doc \in PreviewDocs :
             dir = (p :> [mtime |-> 0, content |-> doc])

NextPreview ==
    \/ QuickPreview
    \/ Return

SpecPreview == InitPreview /\ [][NextPreview]_vars

-----------------------------------------------------------------------------
(* Claims about generate_visualization and generate_chart. *)

\* generate_chart ran and has returned to its caller
ChartReturned == pc \in {"gv_summary", "done"} /\ env.query # "unrun"

open_call == <<"o", "p", "e", "n", "(">>

\* C2: in generate_visualization validation precedes all execution: while the
\* query and the script have not both been accepted, the data source has observed
\* no query, no script statement has run and the output directory is as it was
\* when the call began; a rejected call returns the rejection text.
C2_ValidationPrecedesExecution ==
    caller = "tool" /\ ~(sql_valid.ok /\ plotly_valid.ok) =>
        /\ queryCalls = 0
        /\ scriptRuns = 0
        /\ dir = last.before
        /\ pc = "done" =>
              LET v == validate_sql_query(sql_query)
                  w == validate_plotly_code(plotly_code)
              IN  /\ ~(v.ok /\ w.ok)
                  /\ ret = IF ~v.ok THEN <<"SQL Query Error: ">> \o v.reason
                           ELSE <<"Plotly Code Error: ">> \o w.reason

\* a script with a filesystem-open call was rejected after the query passed
C2_Witness ==
    /\ caller = "tool"
    /\ pc = "done"
    /\ sql_valid.ok
    /\ ~plotly_valid.ok
    /\ Contains(Lower(plotly_code), open_call)
    /\ ret = <<"Plotly Code Error: ", "Code contains potentially dangerous pattern: ">>
             \o open_call
    /\ queryCalls = 0

\* C5 as stated: a successful generate_chart result contains the 'html' format
\* for every export_formats the caller passes.
C5_SuccessAlwaysHasHtml ==
    ChartReturned /\ result.success => "html" \in DOMAIN result.files

\* C5 amended: a successful generate_chart result contains the 'html' format,
\* with the path of a file that is in the output directory, whenever
\* export_formats is the default or contains 'html'.
C5_SuccessHasHtmlWhenRequested ==
    ChartReturned /\ result.success /\ "html" \in Range(export_formats) =>
        /\ "html" \in DOMAIN result.files
        /\ result.files["html"] = PathOf(base_filename, "html")
        /\ PathOf(base_filename, "html") \in DOMAIN dir

C5_Witness ==
    /\ ChartReturned
    /\ result.success
    /\ env.script = "fig"
    /\ export_formats = <<"html", "json", "png", "svg">>
    /\ "html" \in DOMAIN result.files

\* a failure that is not a renderer's
OtherFailure ==
    \/ env.query \in {"raised", "not_compiled"}
    \/ env.script \in {"nofig", "exception"}
    \/ env.json \in {"raised", "raised_partial"}
    \/ env.html \in {"raised", "raised_partial"}
    \/ env.chart_data = "raised"

\* C6: 'png' / 'svg' is in the returned files exactly when it was requested and
\* its renderer succeeded; a missing renderer dependency or a renderer failure
\* never makes the result a failure and never adds an entry to errors.
C6_ImageFormatsIffRendered ==
    ChartReturned =>
        /\ \A ext \in {"png", "svg"} :
              ext \in DOMAIN result.files <=>
                  (ext \in Range(export_formats) /\ env[ext] = "ok")
        /\ ~OtherFailure => result.success /\ result.errors = <<>>

C6_Witness ==
    /\ ChartReturned
    /\ env.png = "failed"
    /\ env.svg = "import_error"
    /\ DOMAIN result.files = {"html", "json"}
    /\ result.success
    /\ result.errors = <<>>

\* a requested 'json' or 'html' export raised
WriteRaised ==
    \/ env.json \in {"raised", "raised_partial"}
    \/ env.html \in {"raised", "raised_partial"}

\* C7 as stated: when the exports of generate_chart leave the files mapping
\* empty, the result is a failure.
C7_EmptyFilesMeansFailure ==
    ChartReturned /\ env.script = "fig" /\ DOMAIN result.files = {} => ~result.success

\* C7 amended: once a figure exists, the result is a failure, with an error
\* entry, exactly when the export of a requested 'json' or 'html' format raised;
\* an empty files mapping without such an exception (nothing requested, or only
\* image formats whose renderers failed) is returned with success=true.
C7_FailureIffWriteRaised ==
    ChartReturned /\ env.script = "fig" =>
        /\ WriteRaised => ~result.success /\ result.errors # <<>>
        /\ ~WriteRaised => result.success

\* the first export raised: the mapping is empty and the result is a failure
C7_Witness ==
    /\ ChartReturned
    /\ env.script = "fig"
    /\ env.json = "raised"
    /\ DOMAIN result.files = {}
    /\ ~result.success
    /\ Len(result.errors) = 1

\* C8: when the query raises, the script raises anything, or the script leaves no
\* 'fig', generate_chart returns with success=false and an error entry, and
\* nothing propagates to the caller.
C8_ExecutorFailureIsAFailedResult ==
    /\ pc # "raised"
    /\ (ChartReturned /\ (env.query = "raised" \/ env.script \in {"nofig", "exception", "exit"}))
          => ~result.success /\ Len(result.errors) >= 1

\* the diagnostic texts of the Executor step of this call
Diagnostics == {env.stdout, env.stderr, env.message} \ {""}

\* C9: when the Executor step fails, every diagnostic text of that step is in
\* the errors of the returned result and none is printed on the caller's console.
C9_DiagnosticsOnlyInFailureReport ==
    (ChartReturned /\ (env.query = "raised" \/ env.script \in {"nofig", "exception"})) =>
        \A d \in Diagnostics :
            /\ \E i \in 1..Len(result.errors) : d \in Range(result.errors[i])
            /\ \A i \in 1..Len(console) : d \notin Range(console[i])

-----------------------------------------------------------------------------
(* Claims about cleanup_old_charts. *)

CleanupReturned == pc = "done" /\ last.op = "cleanup"

\* C10 as stated: after cleanup_old_charts(0) the output directory holds no file.
C10_CleanupZeroEmptiesDirectory ==
    CleanupReturned /\ last.keep_days = 0 => DOMAIN dir = {}

\* C10 amended: cleanup_old_charts(0) deletes every file whose modification time
\* is strictly earlier than the current time, except one whose removal fails;
\* a file whose modification time equals the current time stays.
C10_CleanupZeroDeletesStrictlyOlder ==
    CleanupReturned /\ last.keep_days = 0 =>
        /\ DOMAIN dir \subseteq DOMAIN last.before
        /\ \A f \in DOMAIN last.before :
              /\ f \in DOMAIN dir <=> (last.before[f].mtime >= last.at \/ f \in last.failed)
              /\ f \in DOMAIN dir => dir[f] = last.before[f]

\* an eviction with keep_days=0 removed an older file and kept one written in
\* the current tick
C10_Witness ==
    /\ CleanupReturned
    /\ last.keep_days = 0
    /\ last.failed = {}
    /\ \E f \in DOMAIN last.before : last.before[f].mtime < last.at /\ f \notin DOMAIN dir
    /\ \E f \in DOMAIN last.before : last.before[f].mtime = last.at /\ f \in DOMAIN dir

\* the cutoff of the eviction that has returned, from the day count it was given
LastCutoff == last.at - last.keep_days * SecondsPerDay

\* C11: cleanup_old_charts(d), with d so large that now - d*86400 precedes the
\* modification time of every file, deletes nothing, returns 0 and leaves the
\* output directory unchanged.
C11_LongRetentionDeletesNothing ==
    (CleanupReturned /\ \A f \in DOMAIN last.before : LastCutoff < last.before[f].mtime) =>
        /\ last.deleted_count = 0
        /\ last.failed = {}
        /\ dir = last.before

\* an eviction with a retention of one day left three files of the first
\* seconds where they were
C11_Witness ==
    /\ CleanupReturned
    /\ last.keep_days = 1
    /\ Cardinality(DOMAIN last.before) = 3
    /\ \A f \in DOMAIN last.before : LastCutoff < last.before[f].mtime
    /\ dir = last.before
    /\ last.deleted_count = 0

\* the files an eviction had to remove: the strictly older ones
Aged == {f \in DOMAIN last.before : last.before[f].mtime < LastCutoff}

\* C14: cleanup_old_charts(days) removes exactly the files whose modification
\* time is earlier than now - days*86400 (an entry whose removal fails aside),
\* file by file whatever artifact a file belongs to, leaves every other file
\* untouched and returns the number of files it removed.
C14_EvictionIsPerFile ==
    CleanupReturned =>
        /\ DOMAIN dir \subseteq DOMAIN last.before
        /\ (DOMAIN last.before) \ (DOMAIN dir) = Aged \ last.failed
        /\ \A f \in DOMAIN dir : dir[f] = last.before[f]
        /\ last.deleted_count = Cardinality((DOMAIN last.before) \ (DOMAIN dir))

\* one artifact kept its primary file and lost its older structured sibling,
\* another lost its primary file and kept its newer raster sibling
C14_Witness ==
    /\ CleanupReturned
    /\ last.failed = {}
    /\ PathOf(BaseA, "html") \in DOMAIN dir
    /\ PathOf(BaseA, "json") \in (DOMAIN last.before) \ (DOMAIN dir)
    /\ PathOf(BaseB, "html") \in (DOMAIN last.before) \ (DOMAIN dir)
    /\ PathOf(BaseB, "png") \in DOMAIN dir
    /\ last.deleted_count = 2

\* C15: when the removal of an eligible entry fails during cleanup_old_charts,
\* the failure is logged, the entry stays and is not counted, every other
\* eligible entry is still removed, and the call returns the count of the
\* removed entries.
C15_RemovalFailureIsSkipped ==
    (CleanupReturned /\ last.failed # {}) =>
        /\ Len(console) = Cardinality(last.failed)
        /\ \A i \in 1..Len(console) : console[i] = <<"Warning: Could not delete">>
        /\ last.failed \subseteq DOMAIN dir
        /\ \A f \in Aged \ last.failed : f \notin DOMAIN dir
        /\ last.deleted_count = Cardinality(Aged \ last.failed)
        /\ last.deleted_count = Cardinality((DOMAIN last.before) \ (DOMAIN dir))

\* one removal failed and two other aged files were removed in the same pass
C15_Witness ==
    /\ CleanupReturned
    /\ Cardinality(last.failed) = 1
    /\ console = << <<"Warning: Could not delete">> >>
    /\ Cardinality(Aged) = 3
    /\ last.deleted_count = 2
    /\ Cardinality(DOMAIN dir) = Cardinality(DOMAIN last.before) - 2

-----------------------------------------------------------------------------
(* Claims about list_recent_charts and view_chart. *)

ListReturned == pc = "done" /\ last.op = "list"

\* the primary files of the directory that was scanned
Primaries == {p \in DOMAIN last.before : p[2] = "html"}

\* C12: for every integer limit n, zero and negative values included,
\* list_recent_charts(n) returns at most n records.
C12_AtMostLimitRecords ==
    ListReturned => Len(last.charts) <= last.limit

\* C13 as stated: in the sequence list_recent_charts returns every record's
\* 'modified' is strictly greater than the next record's, and the records are
\* the n primary files with the greatest modification times.
C13_StrictlyNewestFirst ==
    ListReturned =>
        /\ \A i \in 1..(Len(last.charts) - 1) :
              last.charts[i].modified > last.charts[i + 1].modified
        /\ \A i \in 1..Len(last.charts) :
              \A p \in Primaries \ {last.charts[j].html_path : j \in 1..Len(last.charts)} :
                 last.charts[i].modified >= last.before[p].mtime

\* C13 amended: the sequence is ordered newest-first with ties allowed: every
\* record's 'modified' is greater than or equal to the next record's; the
\* records are distinct primary files, each at least as new as every primary
\* file that is not returned; for n >= 0 their number is the smaller of n and
\* the number of primary files.
C13_NewestFirstWithTies ==
    ListReturned =>
        LET returned == {last.charts[j].html_path : j \in 1..Len(last.charts)} IN
        /\ \A i \in 1..(Len(last.charts) - 1) :
              last.charts[i].modified >= last.charts[i + 1].modified
        /\ returned \subseteq Primaries
        /\ Cardinality(returned) = Len(last.charts)
        /\ \A i \in 1..Len(last.charts) :
              /\ last.charts[i].modified = last.before[last.charts[i].html_path].mtime
              /\ \A p \in Primaries \ returned :
                    last.charts[i].modified >= last.before[p].mtime
        /\ last.limit >= 0 =>
              Len(last.charts) = IF last.limit <= Cardinality(Primaries)
                                 THEN last.limit ELSE Cardinality(Primaries)

\* two primary files of equal modification time were listed one after the other
C13_Witness ==
    /\ ListReturned
    /\ last.limit = 2
    /\ Len(last.charts) = 2
    /\ last.charts[1].modified = last.charts[2].modified
    /\ last.charts[1].name # last.charts[2].name

\* C16: every record list_recent_charts returns is that of a primary ('.html')
\* file in the directory at scan time, so a base name with only structured,
\* raster or vector siblings has no record; available_formats contains 'html',
\* and 'json' (respectively 'png') exactly when the sibling of that base name
\* exists.
C16_RecordsArePrimaryFiles ==
    ListReturned =>
        \A i \in 1..Len(last.charts) :
            LET c == last.charts[i] IN
            /\ c.html_path \in DOMAIN last.before
            /\ c.html_path = <<c.name, "html">>
            /\ "html" \in Range(c.available_formats)
            /\ \A ext \in {"json", "png"} :
                  ext \in Range(c.available_formats) <=> <<c.name, ext>> \in DOMAIN last.before
            /\ Range(c.available_formats) \subseteq {"html", "json", "png"}

\* the directory held the structured and raster files of one base name without
\* its primary file, and the primary and raster files of another: the listing
\* is the one record of the latter, with 'html' and 'png'
C16_Witness ==
    /\ ListReturned
    /\ last.limit = DefaultLimit
    /\ DOMAIN last.before = {PathOf(BaseA, "json"), PathOf(BaseA, "png"),
                             PathOf(BaseB, "html"), PathOf(BaseB, "png")}
    /\ Len(last.charts) = 1
    /\ last.charts[1].name = BaseB
    /\ last.charts[1].available_formats = <<"html", "png">>

ViewReturned == pc = "done" /\ last.op = "view"

\* the primary files of the directory whose name contains the fragment
MatchingPrimaries ==
    {p \in Primaries : Contains(Lower(BaseText(p[1])), Lower(last.fragment))}

\* C19: view_chart selects the first record, in the unbounded listing of all
\* artifacts, whose name contains the fragment case-insensitively: whenever an
\* artifact of the directory has a matching name the lookup finds a match,
\* however many artifacts exist.
C19_LookupFindsAnyMatchingArtifact ==
    (ViewReturned /\ MatchingPrimaries # {}) =>
        /\ last.found
        /\ last.chart.html_path \in MatchingPrimaries
        /\ \A p \in MatchingPrimaries : last.chart.modified >= last.before[p].mtime

-----------------------------------------------------------------------------
(* Claims that relate generate_chart to the repository operations. *)

\* generate_chart has returned success with an 'html' entry in files
ChartExported == ChartReturned /\ result.success /\ "html" \in DOMAIN result.files

\* what C17 asks of a state: the primary file of a successful generation is in
\* the directory, with the structured file when that was exported; a listing
\* whose limit is at least the number of primary files has a record for every
\* primary file, which lists 'json' when the structured file is there
ListedWhenExported ==
    /\ ChartExported =>
          /\ result.files["html"] = PathOf(base_filename, "html")
          /\ PathOf(base_filename, "html") \in DOMAIN dir
          /\ "json" \in DOMAIN result.files => PathOf(base_filename, "json") \in DOMAIN dir
    /\ (ListReturned /\ last.limit >= Cardinality(Primaries)) =>
          \A p \in Primaries :
             \E i \in 1..Len(last.charts) :
                /\ last.charts[i].name = p[1]
                /\ PathOf(p[1], "json") \in DOMAIN last.before
                      => "json" \in Range(last.charts[i].available_formats)

\* a primary file leaves the directory only in an eviction pass that found it
\* aged
PrimaryLeavesOnlyByEviction ==
    \A p \in DOMAIN dir :
        (p[2] = "html" /\ p \notin DOMAIN dir') =>
            /\ last'.op = "cleanup"
            /\ last'.before = dir
            /\ dir[p].mtime < last'.at - last'.keep_days * SecondsPerDay

\* C17: after generate_chart returns success with an 'html' entry in files, a
\* list_recent_charts call with a limit at least the number of primary files
\* contains a record named by the generated base name, which lists 'json' when
\* the structured file was exported; the record stays in every later listing
\* until an eviction pass removes its primary file.
C17_ExportedChartIsListedUntilEvicted ==
    [][PrimaryLeavesOnlyByEviction /\ ListedWhenExported']_vars

\* a chart generated at time 0 with its structured file is in a listing made
\* after the clock advanced and a second chart was generated
C17_Witness ==
    /\ ListReturned
    /\ now = 1
    /\ calls = 2
    /\ \E i \in 1..Len(last.charts) :
          /\ last.charts[i].name = << <<"a", "b">>, 0 >>
          /\ last.charts[i].available_formats = <<"html", "json">>
    /\ \E i \in 1..Len(last.charts) : last.charts[i].name = << <<"a", "b">>, 1 >>

\* the primary path of the request that has returned
PrimaryPath == PathOf(generate_filename(name), "html")

\* an earlier request of the same name exported its primary file in this second
SameSecondCollision ==
    /\ ChartExported
    /\ PrimaryPath \in DOMAIN last.before
    /\ last.before[PrimaryPath].mtime = now
    /\ last.before[PrimaryPath].content.kind = "html"

\* C18: two generate_chart requests of the same name within one second get the
\* same base name; both succeed with the same primary path, and afterwards the
\* directory holds one primary file of that base name, whose content is that of
\* the request that wrote last: the listing gains one record, not two.
C18_SameSecondRequestsShareOnePrimary ==
    SameSecondCollision =>
        /\ base_filename = generate_filename(name)
        /\ result.files["html"] = PrimaryPath
        /\ dir[PrimaryPath] = [mtime |-> now, content |-> ToHtml(fig)]
        /\ {p \in DOMAIN dir : p[2] = "html"} = {p \in DOMAIN last.before : p[2] = "html"}

\* the second request of the second replaced the page of a titled figure by
\* that of an untitled one
C18_Witness ==
    /\ SameSecondCollision
    /\ calls = 2
    /\ last.before[PrimaryPath].content = ToHtml([kind |-> "fig", title |-> "T", x |-> "list"])
    /\ fig.title = "None"
    /\ dir[PrimaryPath].content.title = "None"
    /\ Cardinality({p \in DOMAIN dir : p[2] = "html"}) = 1

\* C20: round trip: for every figure a successful generate_chart exported,
\* display_chart_quick_preview on the structured file reports the title and the
\* point count of the returned chart_data, figures without a title and figures
\* whose first trace has no x data included.
C20_PreviewAgreesWithChartData ==
    (ChartReturned /\ result.success /\ "json" \in DOMAIN result.files) =>
        LET shown == display_chart_quick_preview(dir, result.files["json"]) IN
        /\ shown.kind = "preview"
        /\ result.chart_data.present
        /\ shown.title = result.chart_data.title
        /\ shown.data_points = result.chart_data.data_points

-----------------------------------------------------------------------------
(* Claims about the read operations. *)

PreviewReturned == pc = "done" /\ last.op = "preview"

\* C21: display_chart_quick_preview never raises: for a missing file, a file
\* that is not valid JSON, a document without layout or title, a title given as
\* a string or as an object, and an empty or absent trace list it returns a
\* text (a preview, 'Chart file not found' or an 'Error reading chart'
\* message), and it writes and deletes no file.
C21_QuickPreviewNeverRaises ==
    /\ ~(pc = "raised" /\ last.op = "preview")
    /\ PreviewReturned =>
          /\ last.shown.kind \in {"preview", "not_found", "error"}
          /\ last.shown.kind = "not_found" <=> last.json_path \notin DOMAIN last.before
          /\ dir = last.before
          /\ last.json_path \in DOMAIN dir =>
                LET doc == dir[last.json_path].content IN
                /\ doc.kind # "json" => last.shown.kind = "error"
                /\ (doc.kind = "json" /\ doc.top = "object" /\ doc.layout # "null"
                      /\ doc.title.form \in {"absent", "string", "object", "object_no_text"}
                      /\ doc.data \in {"absent", "empty"})
                      => last.shown.kind = "preview"

\* a document whose layout is null was answered with the error text, and a
\* directory with that file is as it was
C21_Witness ==
    /\ PreviewReturned
    /\ last.json_path \in DOMAIN dir
    /\ dir[last.json_path].content.kind = "json"
    /\ dir[last.json_path].content.layout = "null"
    /\ last.shown.kind = "error"
    /\ dir = last.before

\* a read operation has returned
ReadReturned == pc = "done" /\ last.op \in {"list", "gallery", "preview", "view"}

\* the listings of the current directory under a limit
ListingsNow(limit) ==
    {list_recent_charts(dir, order, limit) : order \in SortedNewestFirst(dir, HtmlFiles(dir))}

\* C22: every Repository and Presenter operation other than eviction
\* (list_recent_charts, the gallery, name-fragment lookup, the quick preview)
\* leaves the files of the output directory and their modification times
\* unchanged, so the call repeated on the directory it leaves returns the same
\* result.
C22_ReadsLeaveDirectoryUnchanged ==
    ReadReturned =>
        /\ dir = last.before
        /\ last.op \in {"list", "gallery"} => last.charts \in ListingsNow(last.limit)
        /\ last.op = "gallery" => console = show_chart_gallery(last.charts)
        /\ last.op = "view" => last.charts \in ListingsNow(DefaultLimit)
        /\ last.op = "preview" =>
              last.shown = display_chart_quick_preview(dir, last.json_path)

\* the lookup in preview mode printed the preview of a structured file that is
\* still in the directory
C22_Witness ==
    /\ ReadReturned
    /\ last.op = "view"
    /\ last.format_type = "preview"
    /\ last.found
    /\ console = << <<"preview", display_chart_quick_preview(dir, last.chart.json_path)>> >>
    /\ last.chart.json_path \in DOMAIN dir
    /\ dir = last.before

-----------------------------------------------------------------------------
(* Claims about create_ascii_chart. *)

\* create_ascii_chart was called with a non-empty frame of two columns
AsciiCalled == last.op = "ascii" /\ last.data.columns >= 2 /\ last.data.values # <<>>

\* the values of the frame that are larger than the one at position i, or equal
\* and earlier
Before(col, i) ==
    {j \in DOMAIN col : col[j] > col[i] \/ (col[j] = col[i] /\ j < i)}

\* the rows shown are the TopN largest values in descending order
ShowsLargestDescending ==
    LET col == last.data.values
        rows == last.out.rows
    IN  /\ Len(rows) = IF Len(col) <= TopN THEN Len(col) ELSE TopN
        /\ \A k \in DOMAIN rows :
              /\ rows[k].label \in DOMAIN col
              /\ rows[k].value = col[rows[k].label]
              /\ Cardinality(Before(col, rows[k].label)) = k - 1

-----------------------------------------------------------------------------
(* Claims about operations that overlap a deletion. *)

\* C24: list_recent_charts and cleanup_old_charts complete without raising
\* under every interleaving with a concurrent eviction pass or external
\* deletion, also when a file is deleted after the directory was enumerated and
\* before its modification time or size is read.
C24_ListingAndEvictionNeverRaise ==
    ~(pc = "raised" /\ last.op \in {"list", "cleanup"})

-----------------------------------------------------------------------------
(* Claims about the export order and the generation result. *)

\* both the structured and the primary file were asked for
AskedBoth == "json" \in Range(export_formats) /\ "html" \in Range(export_formats)

\* every primary file of the directory has its structured file
HtmlHasJson ==
    \A p \in DOMAIN dir : p[2] = "html" => PathOf(p[1], "json") \in DOMAIN dir

\* every record of a returned listing shows 'json'
ListedShowsJson ==
    ListReturned =>
        \A i \in 1..Len(last.charts) : "json" \in Range(last.charts[i].available_formats)

\* the step is an eviction pass
EvictionStep == pc = "idle" /\ last'.op = "cleanup"

\* C26: the structured file is written before the primary file: as long as no
\* eviction has separated them, with requests that ask for 'json' whenever they
\* ask for 'html', every <base>.html in the directory has its <base>.json, and
\* every listed record shows 'json' in available_formats.
C26_PrimaryImpliesStructured ==
    [][(HtmlHasJson /\ ~EvictionStep) => (HtmlHasJson' /\ ListedShowsJson')]_vars

\* the primary file of a request for both formats has just been written next to
\* its structured file
C26_Witness ==
    /\ pc = "gc_png"
    /\ AskedBoth
    /\ env.json = "ok" /\ env.html = "ok"
    /\ PathOf(base_filename, "html") \in DOMAIN dir
    /\ PathOf(base_filename, "json") \in DOMAIN dir
    /\ result.files["html"] = PathOf(base_filename, "html")

\* C27: every result generate_chart returns is consistent: success=true implies
\* no errors and chart_data present, success=false implies errors and no
\* chart_data, also when a step after the exports raises.
C27_ResultIsConsistent ==
    ChartReturned =>
        /\ result.success => (result.errors = <<>> /\ result.chart_data.present)
        /\ ~result.success => (result.errors # <<>> /\ ~result.chart_data.present)

\* the base name of the request had no file when the request was made
BaseWasFree == \A p \in DOMAIN last.before : p[1] # base_filename

\* the files of the request's base name in a directory
OfBase(d) == {p[2] : p \in {q \in DOMAIN d : q[1] = base_filename}}

\* a request for both formats is about to export, its base name unused so far
ExportStarts == pc = "gc_json" /\ AskedBoth /\ BaseWasFree

\* a request for both formats has returned a failure of one of its exports
FailedMidExport ==
    /\ ChartReturned /\ AskedBoth /\ BaseWasFree
    /\ ~result.success
    /\ fig # NoFig

\* C25 as stated: a failure in the middle of the exports of a request for
\* 'json' and 'html' can leave either partial state for the base name: the
\* structured file with no primary file, or the primary file with no structured
\* file.
C25_EitherPartialStateCanBeLeft ==
    ExportStarts =>
        /\ \E d \in ExportLeaves(dir, base_filename, fig) :
              PathOf(base_filename, "json") \in DOMAIN d
              /\ PathOf(base_filename, "html") \notin DOMAIN d
        /\ \E d \in ExportLeaves(dir, base_filename, fig) :
              PathOf(base_filename, "html") \in DOMAIN d
              /\ PathOf(base_filename, "json") \notin DOMAIN d

\* C25 amended: a failure in the middle of the exports can leave the structured
\* file with no primary file, which list_recent_charts does not report as a
\* record; it never leaves the primary file with no structured file.
C25_OnlyStructuredFileCanBeOrphaned ==
    /\ ExportStarts =>
          /\ \E d \in ExportLeaves(dir, base_filename, fig) :
                PathOf(base_filename, "json") \in DOMAIN d
                /\ PathOf(base_filename, "html") \notin DOMAIN d
          /\ \A d \in ExportLeaves(dir, base_filename, fig) :
                PathOf(base_filename, "html") \in DOMAIN d
                   => PathOf(base_filename, "json") \in DOMAIN d
    /\ FailedMidExport =>
          /\ dir \in ExportLeaves(last.before, base_filename, fig)
          /\ "html" \in OfBase(dir) => "json" \in OfBase(dir)
    /\ ListReturned =>
          \A i \in 1..Len(last.charts) :
             PathOf(last.charts[i].name, "html") \in DOMAIN last.before

\* a listing made while the directory holds a structured file without its
\* primary file has no record for it
C25_Witness ==
    /\ ListReturned
    /\ \E p \in DOMAIN last.before :
          /\ p[2] = "json"
          /\ PathOf(p[1], "html") \notin DOMAIN last.before
          /\ \A i \in 1..Len(last.charts) : last.charts[i].name # p[1]

-----------------------------------------------------------------------------
(* Claims about the queries of one generate_visualization call. *)

\* generate_visualization has returned its text
ToolReturned == caller = "tool" /\ pc = "done"

\* validation rejected the request: generate_chart was not called
ValidationRejected == env.query = "unrun"

\* the summary is the success summary
SuccessSummary == ret # <<>> /\ Head(ret) = "Chart Generated Successfully!"

\* C29 as stated: per generate_visualization call the data source is queried
\* zero times when validation rejects, exactly once when validation passes and
\* the result has success=false, exactly twice when the result has
\* success=true; a failure of the second query never changes the success
\* summary into a failure.
C29_QueriesPerCall ==
    ToolReturned =>
        /\ ValidationRejected => queryCalls = 0
        /\ (~ValidationRejected /\ ~result.success) => queryCalls = 1
        /\ (~ValidationRejected /\ result.success) => (queryCalls = 2 /\ SuccessSummary)

\* C29 amended: of the queries the program itself issues, a call makes none
\* when validation rejects; when validation passes and the result has
\* success=false it makes none if the assembled code does not compile and one
\* otherwise; when the result has success=true it makes two, and the summary is
\* the success summary whether the second query failed or not.
C29_QueriesPerCallUnlessNotCompiled ==
    ToolReturned =>
        /\ ValidationRejected => queryCalls = 0
        /\ (~ValidationRejected /\ ~result.success) =>
              queryCalls = IF env.query = "not_compiled" THEN 0 ELSE 1
        /\ (~ValidationRejected /\ result.success) =>
              /\ queryCalls = 2
              /\ env.query = "ok"
              /\ env.preview \in {"ok", "raised"}
              /\ SuccessSummary

\* a call returned the success summary after its second query had failed
C29_Witness ==
    /\ ToolReturned
    /\ result.success
    /\ env.preview = "raised"
    /\ queryCalls = 2
    /\ SuccessSummary

-----------------------------------------------------------------------------
(* Claims about the query text inside the executed code. *)

\* C30: query text is data only: for every accepted query the executed code
\* has the query solely as the string handed to the data source; the query
\* text never ends the embedded string literal, so none of it is read as
\* script statements.
C30_QueryIsDataOnly ==
    last.op = "exec" =>
        /\ last.literal = last.query
        /\ last.outside = <<>>

====
